---- MODULE Spec2Model ----
(***************************************************************************)
(* PerformanceMonitor (src/performance_monitor.py): a metrics store that   *)
(* is written by one foreground context (record_event, record_query,       *)
(* start/stop_monitoring, save_metrics, generate_report) and by the        *)
(* background threads that run _monitor_loop / capture_point.              *)
(* run_billion_row_challenge (src/billion_row_challenge.py) is the script   *)
(* that drives the monitor around the benchmark's engine calls.            *)
(*                                                                         *)
(* Conventions of the model                                                *)
(*  - time.time() is a reading of a clock that never goes backward: every  *)
(*    reading is >= the previous one (clock holds the last reading).       *)
(*  - a Python float is [ty |-> "float", val |-> v] with v in thousandths, *)
(*    a Python int is [ty |-> "int", val |-> i], None is [ty |-> "none"].  *)
(*  - a Python str built by an f-string is the sequence of its pieces.     *)
(*  - each bytecode-level list.append is one step (it is atomic under the  *)
(*    interpreter lock); nothing longer than that is atomic, because the   *)
(*    class takes no lock anywhere.                                        *)
(***************************************************************************)
EXTENDS Integers, Sequences, FiniteSets, TLC

\* ---------------------------------------------------------------- bounds
Epoch == 1
MaxElapsed == 1
MaxSamples == 2
MaxEvents == 4
MaxThreads == 2
MaxChunks == 1

MaxClock == Epoch + MaxElapsed
Threads == 1..MaxThreads

\* ---------------------------------------------------------------- inputs
\* 1024, as in 1024**2 and 1024**3
KB == 1024
MB == KB * KB
TotalMemory == 1024 * MB

\* what psutil reports in one capture: system CPU % (thousandths), the
\* resident set size of the process in bytes, and how far the cumulative disk
\* counters have moved since they were last read. The workload is a fixed
\* one: a busy capture (disk traffic) and a quiet one (none) alternate.
Probe(n) == IF n % 2 = 1
              THEN [ cpu |-> 50000, rss |-> 128 * MB,
                     read_bytes |-> 6 * MB, write_bytes |-> 3 * MB ]
              ELSE [ cpu |-> 0, rss |-> 64 * MB,
                     read_bytes |-> 0, write_bytes |-> 0 ]
\* names the caller passes to record_event: a different one in each call,
\* as in the benchmark script ("Loading file 1/4", "Loading file 2/4", ...)
EventName(i) == << "Loading file ", ToString(i) >>
\* names the caller passes to record_query
QueryNames == { "q1", "q2" }
\* what conn.execute(query_sql).fetchall() hands back, or raises
Results == { "rows1", "rows2" }
EngineErrors == { "CatalogException", "InterruptException" }

\* ---------------------------------------------------------------- values
PyFloat(v) == [ty |-> "float", val |-> v]
PyInt(i) == [ty |-> "int", val |-> i]
PyNone == [ty |-> "none", val |-> 0]
Seconds(t) == PyFloat(t * 1000)

Min(a, b) == IF a <= b THEN a ELSE b

VARIABLES
  clock,            \* the last reading of time.time()
  disk_counters,    \* the operating system's cumulative disk counters
  start_time,       \* self.start_time
  last_disk_io,     \* self.last_disk_io
  last_disk_time,   \* self.last_disk_time
  system_info,      \* self.system_info
  metrics,          \* self.metrics
  monitoring,       \* self.monitoring
  monitor_thread,   \* self.monitor_thread (0: the attribute is not set)
  th,               \* the monitor threads: position and locals of each
  fg,               \* the foreground context: position and locals
  ret,              \* what the last finished foreground call returned/raised
  dump,             \* what json.dump has read of the store so far
  file,             \* the document save_metrics wrote (NoFile: none yet)
  host,             \* run_billion_row_challenge: position and locals
  hist              \* history: calls made so far (not program state)

vars == << clock, disk_counters, start_time, last_disk_io, last_disk_time,
           system_info, metrics, monitoring, monitor_thread, th, fg, ret,
           dump, file, host, hist >>

\* the six sample series, in the order capture_point appends to them, which
\* is also the key order of self.metrics
Series == << "timestamp", "cpu_percent", "memory_percent", "memory_used_mb",
             "disk_read_mb", "disk_write_mb" >>

EmptyMetrics ==
  [ timestamp |-> <<>>, cpu_percent |-> <<>>, memory_percent |-> <<>>,
    memory_used_mb |-> <<>>, disk_read_mb |-> <<>>, disk_write_mb |-> <<>>,
    query_times_ms |-> <<>>, events |-> <<>> ]

NoFile == [ exists |-> FALSE ]
NoRet == [ op |-> "none", raised |-> FALSE ]

IdleThread == [ pc |-> "unborn", k |-> 0, n |-> 0, now |-> 0, vals |-> <<>> ]
IdleFg == [ pc |-> "idle", name |-> "", start |-> 0, k |-> 0 ]

\* no benchmark script is running: the calls on the monitor are any caller's
NoHost == [ pc |-> "none", k |-> 0, q |-> 0, conn |-> "none",
            failed |-> FALSE, swallowed |-> FALSE, late |-> 0,
            shutdown_error |-> "", out |-> "none" ]

SystemInfo(ncpu) ==
  [ os |-> "posix", python_version |-> "3.11.4", cpu_count |-> ncpu,
    total_memory_gb |-> PyFloat(((TotalMemory \div MB) * 1000) \div KB),
    duckdb_version |-> "v1.0.0" ]

\* os.cpu_count()
CpuCounts == { PyInt(4) }

\* ------------------------------------------------------------------ Init
\* __init__: the store is empty, start_time is read first and
\* last_disk_time after it, the flag is down and no thread exists
Init ==
  /\ start_time = Epoch
  /\ clock = Epoch
  /\ last_disk_time = clock
  /\ disk_counters = [read_bytes |-> 0, write_bytes |-> 0]
  /\ last_disk_io = disk_counters
  /\ system_info \in { SystemInfo(n) : n \in CpuCounts }
  /\ metrics = EmptyMetrics
  /\ monitoring = FALSE
  /\ monitor_thread = 0
  /\ th = [t \in Threads |-> IdleThread]
  /\ fg = IdleFg
  /\ ret = NoRet
  /\ dump = EmptyMetrics
  /\ file = NoFile
  /\ host = NoHost
  /\ hist = [ record_event |-> 0, begun |-> 0, captured |-> 0,
              called |-> <<>>, run |-> "fresh", during |-> {},
              op_out |-> "", failed |-> <<>> ]

\* a reading of time.time(): not before the last reading
Readings == clock..Min(clock + 1, MaxClock)


\* an append done as read, then write: it overwrites an entry appended meanwhile
AppendOverLast(list, x) ==
  IF list = <<>> THEN << x >> ELSE [list EXCEPT ![Len(list)] = x]

\* list.append
AppendTo(list, x) == Append(list, x)

\* ------------------------------------------------------- the monitor thread
\* (r1 - r0) / dt / 1024**2, in thousandths of MB/s; the byte counts of the
\* model are whole multiples of KB, so dividing in two stages loses nothing
Rate(diff, dt) == ((diff \div KB) * 1000) \div (dt * KB)

\* process.memory_percent(): rss as a percentage of the total memory
MemoryPercent(rss) == PyFloat(((rss \div MB) * 100 * 1000) \div (TotalMemory \div MB))

\* memory_info.rss / (1024**2)
MemoryUsedMb(rss) == PyFloat((rss \div MB) * 1000)

\* lines 84-89: the rate since the last capture, or 0 when no time has passed
DiskRate(current, last, io_time_diff) ==
  IF io_time_diff > 0 THEN PyFloat(Rate(current - last, io_time_diff))
                      ELSE PyInt(0)


\* while True: the loop never looks at the flag
monitor_loop_for_ever(t) ==
  /\ th[t].pc = "while"
  /\ hist.begun < MaxSamples
  /\ th' = [th EXCEPT ![t].pc = "capture", ![t].n = hist.begun + 1]
  /\ hist' = [hist EXCEPT !.begun = @ + 1]
  /\ UNCHANGED << clock, disk_counters, start_time, last_disk_io,
                  last_disk_time, system_info, metrics, monitoring,
                  monitor_thread, fg, ret, dump, file, host >>

\* while self.monitoring: ... time.sleep(self.monitor_interval)
monitor_loop(t) ==
  /\ th[t].pc = "while"
  /\ IF monitoring
       THEN /\ hist.begun < MaxSamples
            /\ th' = [th EXCEPT ![t].pc = "capture", ![t].n = hist.begun + 1]
            /\ hist' = [hist EXCEPT !.begun = @ + 1]
       ELSE /\ th' = [th EXCEPT ![t].pc = "exited"]
            /\ hist' = hist
  /\ UNCHANGED << clock, disk_counters, start_time, last_disk_io,
                  last_disk_time, system_info, metrics, monitoring,
                  monitor_thread, fg, ret, dump, file, host >>


\* capture_point takes a lock that record_query holds around the query
capture_now_between_queries(t) ==
  /\ th[t].pc = "capture"
  /\ fg.pc # "in_query"
  /\ \E now \in Readings :
       /\ clock' = now
       /\ th' = [th EXCEPT ![t].pc = "probe", ![t].now = now]
  /\ UNCHANGED << disk_counters, start_time, last_disk_io, last_disk_time,
                  system_info, metrics, monitoring, monitor_thread, fg, ret,
                  dump, file, host, hist >>

\* capture_point, line 72: now = time.time()
capture_now(t) ==
  /\ th[t].pc = "capture"
  /\ \E now \in Readings :
       /\ clock' = now
       /\ th' = [th EXCEPT ![t].pc = "probe", ![t].now = now]
  /\ UNCHANGED << disk_counters, start_time, last_disk_io, last_disk_time,
                  system_info, metrics, monitoring, monitor_thread, fg, ret,
                  dump, file, hist, host >>

\* capture_point, lines 73-92: the probes, the disk rates and the new baseline
capture_probe(t) ==
  /\ th[t].pc = "probe"
  /\ LET p == Probe(th[t].n)
     IN
       LET current == [ read_bytes |-> disk_counters.read_bytes + p.read_bytes,
                        write_bytes |-> disk_counters.write_bytes + p.write_bytes ]
           now == th[t].now
           io_time_diff == now - last_disk_time
           read_diff == DiskRate(current.read_bytes, last_disk_io.read_bytes,
                                 io_time_diff)
           write_diff == DiskRate(current.write_bytes, last_disk_io.write_bytes,
                                  io_time_diff)
       IN /\ disk_counters' = current
          /\ last_disk_io' = current
          /\ last_disk_time' = now
          /\ th' = [th EXCEPT ![t].pc = "append", ![t].k = 1,
                              ![t].vals = << Seconds(now - start_time),
                                             PyFloat(p.cpu),
                                             MemoryPercent(p.rss),
                                             MemoryUsedMb(p.rss),
                                             read_diff, write_diff >>]
  /\ UNCHANGED << clock, start_time, system_info, metrics, monitoring,
                  monitor_thread, fg, ret, dump, file, hist, host >>

\* capture_point, lines 95-100: one append per step, in the order of Series;
\* after the sixth the call returns and the loop sleeps
capture_append(t) ==
  /\ th[t].pc = "append"
  /\ LET k == th[t].k
     IN /\ metrics' = [metrics EXCEPT ![Series[k]] = AppendTo(@, th[t].vals[k])]
        /\ th' = [th EXCEPT ![t] = IF k = Len(Series)
                                     THEN [IdleThread EXCEPT !.pc = "while"]
                                     ELSE [@ EXCEPT !.k = k + 1]]
        /\ hist' = [hist EXCEPT
                      !.captured = IF k = Len(Series) THEN @ + 1 ELSE @,
                      !.during = IF fg.pc = "dump" THEN @ \cup {metrics'} ELSE @]
  /\ UNCHANGED << clock, disk_counters, start_time, last_disk_io,
                  last_disk_time, system_info, monitoring, monitor_thread,
                  fg, ret, dump, file, host >>

\* what one monitor thread does next
monitor_thread_run(t) ==
  \/ monitor_loop(t)
  \/ capture_now(t)
  \/ capture_probe(t)
  \/ capture_append(t)

Sampler ==
  \E t \in Threads :
    \/ monitor_loop(t)
    \/ capture_now(t)
    \/ capture_probe(t)
    \/ capture_append(t)


\* events.insert(0, ...) in place of events.append(...)
record_event_in_front(m, now, event_name) ==
  [m EXCEPT !.events = << [ time |-> Seconds(now - start_time),
                            name |-> event_name ] >> \o @]

\* ---------------------------------------------------------- the foreground
\* record_event, lines 104-108: the store after the append
record_event(m, now, event_name) ==
  [m EXCEPT !.events = AppendTo(@, [ time |-> Seconds(now - start_time),
                                     name |-> event_name ])]


\* return now - self.start_time
record_event_return_elapsed(now) == Seconds(now - start_time)

\* record_event, line 109: return now
record_event_return(now) == Seconds(now)

\* a free caller makes calls as long as events has room for n more entries;
\* the benchmark script is finite by itself
Room(n) == host.pc # "none" \/ Len(metrics.events) + n <= MaxEvents

\* the caller calls record_event(name)
call_record_event ==
  /\ fg.pc = "idle"
  /\ Room(1)
  /\ \E now \in Readings :
       LET name == EventName(Len(hist.called) + 1)
       IN
       /\ clock' = now
       /\ metrics' = record_event(metrics, now, name)
       /\ ret' = [ op |-> "record_event", raised |-> FALSE,
                   value |-> record_event_return(now) ]
       /\ hist' = [hist EXCEPT !.record_event = @ + 1,
                               !.called = Append(@, name),
                               !.run = IF @ = "started" THEN @ ELSE "other"]
  /\ UNCHANGED << disk_counters, start_time, last_disk_io, last_disk_time,
                  system_info, monitoring, monitor_thread, th, fg, dump, file >>

\* the thread start_monitoring creates: the first that does not exist yet
NextThread == CHOOSE t \in Threads :
                /\ th[t].pc = "unborn"
                /\ \A u \in Threads : th[u].pc = "unborn" => t <= u

\* start_monitoring, lines 50-54: raise the flag and start the thread. The
\* caller does not call it while a start is outstanding (the flag is up).
start_monitoring ==
  /\ fg.pc = "idle"
  /\ ~monitoring
  /\ Room(1)
  /\ \E t \in Threads : th[t].pc = "unborn"
  /\ monitoring' = TRUE
  /\ monitor_thread' = NextThread
  /\ th' = [th EXCEPT ![NextThread].pc = "while"]
  /\ fg' = [fg EXCEPT !.pc = "started"]
  /\ UNCHANGED << clock, disk_counters, start_time, last_disk_io,
                  last_disk_time, system_info, metrics, ret, dump, file, hist >>

\* start_monitoring, line 55: self.record_event("Monitoring started")
start_monitoring_event ==
  /\ fg.pc = "started"
  /\ \E now \in Readings :
       /\ clock' = now
       /\ metrics' = record_event(metrics, now, <<"Monitoring started">>)
  /\ fg' = IdleFg
  /\ ret' = [ op |-> "start_monitoring", raised |-> FALSE ]
  /\ hist' = [hist EXCEPT !.record_event = @ + 1,
                          !.run = IF @ = "fresh" THEN "started" ELSE "other"]
  /\ UNCHANGED << disk_counters, start_time, last_disk_io, last_disk_time,
                  system_info, monitoring, monitor_thread, th, dump, file >>

\* stop_monitoring, line 59: lower the flag
stop_monitoring ==
  /\ fg.pc = "idle"
  /\ Room(1)
  /\ monitoring' = FALSE
  /\ fg' = [fg EXCEPT !.pc = "join"]
  /\ UNCHANGED << clock, disk_counters, start_time, last_disk_io,
                  last_disk_time, system_info, metrics, monitor_thread, th,
                  ret, dump, file, hist >>

\* is the thread self.monitor_thread still running?
ThreadAlive == monitor_thread # 0 /\ th[monitor_thread].pc # "exited"


\* join() without a timeout: it comes back only when the thread has ended
stop_monitoring_join_for_ever ==
  /\ fg.pc = "join"
  /\ ~(monitor_thread # 0 /\ th[monitor_thread].pc # "exited")
  /\ \E now \in Readings :
       /\ clock' = now
       /\ metrics' = record_event(metrics, now, <<"Monitoring stopped">>)
  /\ fg' = IdleFg
  /\ ret' = [ op |-> "stop_monitoring", raised |-> FALSE, alive |-> FALSE ]
  /\ hist' = [hist EXCEPT !.record_event = @ + 1,
                          !.run = IF @ = "started" THEN "stopped" ELSE "other"]
  /\ UNCHANGED << disk_counters, start_time, last_disk_io, last_disk_time,
                  system_info, monitoring, monitor_thread, th, dump, file >>

\* stop_monitoring, lines 60-62: join(timeout=2.0) comes back when the thread
\* has ended or when the two seconds are over, whichever is first (it is
\* skipped when no thread was ever started); then the event is recorded
stop_monitoring_join ==
  /\ fg.pc = "join"
  /\ \E now \in Readings :
       /\ clock' = now
       /\ metrics' = record_event(metrics, now, <<"Monitoring stopped">>)
  /\ fg' = IdleFg
  /\ ret' = [ op |-> "stop_monitoring", raised |-> FALSE,
              alive |-> ThreadAlive ]
  /\ hist' = [hist EXCEPT !.record_event = @ + 1,
                          !.run = IF @ = "started" THEN "stopped" ELSE "other"]
  /\ UNCHANGED << disk_counters, start_time, last_disk_io, last_disk_time,
                  system_info, monitoring, monitor_thread, th, dump, file >>

\* ------------------------------------------------------------ record_query
\* query_name in self.metrics["query_times_ms"]
HasKey(q, query_name) == \E i \in DOMAIN q : q[i].name = query_name

\* self.metrics["query_times_ms"][query_name]
TimesOf(q, query_name) ==
  IF HasKey(q, query_name)
    THEN q[CHOOSE i \in DOMAIN q : q[i].name = query_name].times
    ELSE <<>>


\* query_times_ms[query_name] = [duration_ms]: the history is overwritten
store_duration_only_last(q, query_name, duration_ms) ==
  LET others == SelectSeq(q, LAMBDA e : e.name # query_name)
  IN IF \E i \in DOMAIN q : q[i].name = query_name
       THEN [ i \in DOMAIN q |->
                IF q[i].name = query_name
                  THEN [q[i] EXCEPT !.times = << duration_ms >>]
                  ELSE q[i] ]
       ELSE Append(others, [name |-> query_name, times |-> << duration_ms >>])

\* lines 123-126: create the key on first use, then append the duration
store_duration(q, query_name, duration_ms) ==
  LET withkey == IF HasKey(q, query_name)
                   THEN q
                   ELSE Append(q, [name |-> query_name, times |-> <<>>])
  IN [ i \in DOMAIN withkey |->
         IF withkey[i].name = query_name
           THEN [withkey[i] EXCEPT !.times = AppendTo(@, duration_ms)]
           ELSE withkey[i] ]

\* line 120: (end_time - start_time) * 1000
DurationMs(start, end) == PyFloat((end - start) * 1000 * 1000)

\* f"{x:.2f}": x rounded to hundredths, as the pieces of the text
Format2f(x) ==
  LET h == (x.val + 5) \div 10
  IN << ToString(h \div 100), ".",
        IF h % 100 < 10 THEN "0" ELSE "", ToString(h % 100) >>

\* line 129: return result, duration_ms
record_query_return(result, duration_ms) == << result, duration_ms >>

\* record_query, lines 113-114: the start event, then the start instant
record_query ==
  /\ fg.pc = "idle"
  /\ Room(2)
  /\ \E query_name \in QueryNames, now \in Readings :
       \E start \in now..Min(now + 1, MaxClock) :
         /\ clock' = start
         /\ metrics' = record_event(metrics, now, <<"Query start: ", query_name>>)
         /\ fg' = [fg EXCEPT !.pc = "in_query", !.name = query_name,
                             !.start = start]
  /\ hist' = [hist EXCEPT !.record_event = @ + 1, !.run = "other"]
  /\ UNCHANGED << disk_counters, start_time, last_disk_io, last_disk_time,
                  system_info, monitoring, monitor_thread, th, ret, dump, file >>


\* record_query that records the end event and forgets the duration
record_query_end_without_duration ==
  /\ fg.pc = "in_query"
  /\ \E result \in Results, end \in Readings :
       \E now \in end..Min(end + 1, MaxClock) :
         LET duration_ms == DurationMs(fg.start, end)
         IN /\ clock' = now
            /\ metrics' = record_event(metrics, now,
                            <<"Query end: ", fg.name, " (">>
                              \o Format2f(duration_ms) \o <<"ms)">>)
            /\ ret' = [ op |-> "record_query", raised |-> FALSE,
                        value |-> record_query_return(result, duration_ms) ]
            /\ hist' = [hist EXCEPT !.record_event = @ + 1,
                                    !.op_out = result]
  /\ fg' = IdleFg
  /\ UNCHANGED << disk_counters, start_time, last_disk_io, last_disk_time,
                  system_info, monitoring, monitor_thread, th, dump, file >>

\* record_query, lines 117-129, when conn.execute(...).fetchall() returns
record_query_end ==
  /\ fg.pc = "in_query"
  /\ \E result \in Results, end \in Readings :
       \E now \in end..Min(end + 1, MaxClock) :
         LET duration_ms == DurationMs(fg.start, end)
             stored == [metrics EXCEPT !.query_times_ms =
                          store_duration(@, fg.name, duration_ms)]
         IN /\ clock' = now
            /\ metrics' = record_event(stored, now,
                            <<"Query end: ", fg.name, " (">>
                              \o Format2f(duration_ms) \o <<"ms)">>)
            /\ ret' = [ op |-> "record_query", raised |-> FALSE,
                        value |-> record_query_return(result, duration_ms) ]
            /\ hist' = [hist EXCEPT !.record_event = @ + 1,
                                    !.op_out = result]
  /\ fg' = IdleFg
  /\ UNCHANGED << disk_counters, start_time, last_disk_io, last_disk_time,
                  system_info, monitoring, monitor_thread, th, dump, file >>


\* the query in a try/finally that records the end event on failure too
record_query_raise_with_end ==
  /\ fg.pc = "in_query"
  /\ fg' = IdleFg
  /\ \E error \in EngineErrors, now \in Readings :
       /\ clock' = now
       /\ metrics' = record_event(metrics, now, <<"Query end: ", fg.name>>)
       /\ ret' = [ op |-> "record_query", raised |-> TRUE, error |-> error ]
       /\ hist' = [hist EXCEPT !.record_event = @ + 1, !.op_out = error,
                               !.failed = Append(@, fg.name)]
  /\ UNCHANGED << disk_counters, start_time, last_disk_io, last_disk_time,
                  system_info, monitoring, monitor_thread, th, dump, file >>

\* record_query, line 117, when the query raises: nothing catches it
record_query_raise ==
  /\ fg.pc = "in_query"
  /\ fg' = IdleFg
  /\ \E error \in EngineErrors :
       /\ ret' = [ op |-> "record_query", raised |-> TRUE, error |-> error ]
       /\ hist' = [hist EXCEPT !.op_out = error, !.failed = Append(@, fg.name)]
  /\ UNCHANGED << clock, disk_counters, start_time, last_disk_io,
                  last_disk_time, system_info, metrics, monitoring,
                  monitor_thread, th, dump, file >>

\* ------------------------------------------------------------ the document
\* json.dump writes a float by its repr (always with a fraction part, and
\* exact), an int by its digits, None as null and a str as a string
JsonValue(v) ==
  CASE v.ty = "float" -> [ js |-> "number", int |-> v.val \div 1000,
                           frac |-> << v.val % 1000 >> ]
    [] v.ty = "int"   -> [ js |-> "number", int |-> v.val, frac |-> <<>> ]
    [] v.ty = "none"  -> [ js |-> "null", int |-> 0, frac |-> <<>> ]

JsonString(str) == [ js |-> "string", text |-> str ]

JsonArray(list) == [ i \in DOMAIN list |-> JsonValue(list[i]) ]

\* json.load reads a number without a fraction part as an int, one with a
\* fraction part as a float, null as None
PyValue(j) ==
  CASE j.js = "null"                      -> PyNone
    [] j.js = "number" /\ j.frac = <<>>   -> PyInt(j.int)
    [] j.js = "number" /\ j.frac # <<>>   -> PyFloat(j.int * 1000 + j.frac[1])

PyStr(j) == j.text

PyList(array) == [ i \in DOMAIN array |-> PyValue(array[i]) ]

\* json.dump(output_data, f, indent=2): objects keep the insertion order of
\* their keys, arrays the order of their items
json_dump(data) ==
  LET si == data.system_info
      m == data.metrics
  IN [ system_info |->
         [ os |-> JsonString(si.os),
           python_version |-> JsonString(si.python_version),
           cpu_count |-> JsonValue(si.cpu_count),
           total_memory_gb |-> JsonValue(si.total_memory_gb),
           duckdb_version |-> JsonString(si.duckdb_version) ],
       metrics |->
         [ timestamp |-> JsonArray(m.timestamp),
           cpu_percent |-> JsonArray(m.cpu_percent),
           memory_percent |-> JsonArray(m.memory_percent),
           memory_used_mb |-> JsonArray(m.memory_used_mb),
           disk_read_mb |-> JsonArray(m.disk_read_mb),
           disk_write_mb |-> JsonArray(m.disk_write_mb),
           query_times_ms |->
             [ i \in DOMAIN m.query_times_ms |->
                 [ key |-> JsonString(m.query_times_ms[i].name),
                   value |-> JsonArray(m.query_times_ms[i].times) ] ],
           events |->
             [ i \in DOMAIN m.events |->
                 [ time |-> JsonValue(m.events[i].time),
                   name |-> JsonString(m.events[i].name) ] ] ] ]

\* json.load(f)
json_load(doc) ==
  LET si == doc.system_info
      m == doc.metrics
  IN [ system_info |->
         [ os |-> PyStr(si.os),
           python_version |-> PyStr(si.python_version),
           cpu_count |-> PyValue(si.cpu_count),
           total_memory_gb |-> PyValue(si.total_memory_gb),
           duckdb_version |-> PyStr(si.duckdb_version) ],
       metrics |->
         [ timestamp |-> PyList(m.timestamp),
           cpu_percent |-> PyList(m.cpu_percent),
           memory_percent |-> PyList(m.memory_percent),
           memory_used_mb |-> PyList(m.memory_used_mb),
           disk_read_mb |-> PyList(m.disk_read_mb),
           disk_write_mb |-> PyList(m.disk_write_mb),
           query_times_ms |->
             [ i \in DOMAIN m.query_times_ms |->
                 [ name |-> PyStr(m.query_times_ms[i].key),
                   times |-> PyList(m.query_times_ms[i].value) ] ],
           events |->
             [ i \in DOMAIN m.events |->
                 [ time |-> PyValue(m.events[i].time),
                   name |-> PyStr(m.events[i].name) ] ] ] ]

\* ------------------------------------------------------------ save_metrics

\* save_metrics that hands the store over: it starts a new, empty one
save_metrics_and_reset ==
  /\ fg.pc = "idle"
  /\ ~file.exists
  /\ fg' = [fg EXCEPT !.pc = "dump", !.k = 1]
  /\ dump' = EmptyMetrics
  /\ metrics' = EmptyMetrics
  /\ hist' = [hist EXCEPT !.during = {metrics}]
  /\ UNCHANGED << clock, disk_counters, start_time, last_disk_io,
                  last_disk_time, system_info, monitoring,
                  monitor_thread, th, ret, file >>

\* save_metrics, lines 133-146 up to the call of json.dump
save_metrics ==
  /\ fg.pc = "idle"
  /\ ~file.exists
  /\ fg' = [fg EXCEPT !.pc = "dump", !.k = 1]
  /\ dump' = EmptyMetrics
  /\ hist' = [hist EXCEPT !.during = {metrics}]
  /\ UNCHANGED << clock, disk_counters, start_time, last_disk_io,
                  last_disk_time, system_info, metrics, monitoring,
                  monitor_thread, th, ret, file >>

\* json.dump walks self.metrics key by key, in Python, holding no lock: it
\* reads each series when it gets to it. query_times_ms and events, which
\* only the foreground writes, are read with the last series; at the end the
\* document is on disk and save_metrics returns
save_metrics_dump ==
  /\ fg.pc = "dump"
  /\ LET k == fg.k
         read == [dump EXCEPT ![Series[k]] = metrics[Series[k]]]
         all == [read EXCEPT !.query_times_ms = metrics.query_times_ms,
                             !.events = metrics.events]
     IN IF k < Len(Series)
          THEN /\ dump' = read
               /\ fg' = [fg EXCEPT !.k = k + 1]
               /\ UNCHANGED << file, ret >>
          ELSE /\ dump' = all
               /\ file' = [ exists |-> TRUE,
                            doc |-> json_dump([ system_info |-> system_info,
                                                metrics |-> all ]) ]
               /\ fg' = [IdleFg EXCEPT !.pc = "saved"]
               /\ ret' = [ op |-> "save_metrics", raised |-> FALSE ]
  /\ UNCHANGED << clock, disk_counters, start_time, last_disk_io,
                  last_disk_time, system_info, metrics, monitoring,
                  monitor_thread, th, hist >>

\* --------------------------------------------------------- generate_report
RECURSIVE SumVals(_)
SumVals(list) == IF list = <<>> THEN 0 ELSE Head(list).val + SumVals(Tail(list))

\* max(list) and min(list) of a list that is not empty
MaxVal(list) == CHOOSE x \in { list[i].val : i \in DOMAIN list } :
                  \A i \in DOMAIN list : list[i].val <= x
MinVal(list) == CHOOSE x \in { list[i].val : i \in DOMAIN list } :
                  \A i \in DOMAIN list : x <= list[i].val

\* sum(list) / len(list) if list else 0   (lines 256, 258)
Average(list) == IF list # <<>> THEN PyFloat(SumVals(list) \div Len(list))
                                ELSE PyInt(0)

\* max(list) if list else 0   (lines 257, 259)
Peak(list) == IF list # <<>> THEN PyFloat(MaxVal(list)) ELSE PyInt(0)

\* lines 262-273: one summary per operation name
QuerySummaries(q) ==
  [ i \in DOMAIN q |->
      [ name |-> q[i].name,
        avg_ms |-> PyFloat(SumVals(q[i].times) \div Len(q[i].times)),
        min_ms |-> PyFloat(MinVal(q[i].times)),
        max_ms |-> PyFloat(MaxVal(q[i].times)),
        count |-> Len(q[i].times) ] ]

\* _plot_resource_usage: plt.plot(x, y) raises ValueError when x and y differ
\* in length; timestamps are plotted against cpu_percent, memory_used_mb,
\* disk_read_mb and disk_write_mb
PlotRaises(m) ==
  \E key \in { "cpu_percent", "memory_used_mb", "disk_read_mb", "disk_write_mb" } :
    Len(m[key]) # Len(m.timestamp)

\* an average over no values (lines 231, 264) raises ZeroDivisionError
DivisionRaises(m) ==
  \E i \in DOMAIN m.query_times_ms : m.query_times_ms[i].times = <<>>

\* lines 169-173 and 252-387: the plots, then the summary statistics, then
\* the page, whose first figure is metrics["timestamp"][-1]
html_report(data) ==
  LET m == data.metrics
  IN CASE PlotRaises(m)     -> [ raised |-> TRUE, error |-> "ValueError" ]
       [] ~PlotRaises(m) /\ DivisionRaises(m)
                            -> [ raised |-> TRUE, error |-> "ZeroDivisionError" ]
       [] ~PlotRaises(m) /\ ~DivisionRaises(m) /\ m.timestamp = <<>>
                            -> [ raised |-> TRUE, error |-> "IndexError" ]
       [] OTHER ->
            [ raised |-> FALSE,
              total_duration |-> m.timestamp[Len(m.timestamp)],
              avg_cpu |-> Average(m.cpu_percent),
              max_cpu |-> Peak(m.cpu_percent),
              avg_memory |-> Average(m.memory_used_mb),
              max_memory |-> Peak(m.memory_used_mb),
              query_summaries |-> QuerySummaries(m.query_times_ms),
              events |-> m.events ]

\* the six sample series of a store are all empty
NoSamples(m) == \A k \in DOMAIN Series : m[Series[k]] = <<>>

\* generate_report(metrics_file): from the store itself (metrics_file is
\* None) or from the document save_metrics wrote
generate_report ==
  /\ fg.pc \in { "idle", "saved" }
  /\ fg' = [fg EXCEPT !.pc = "done"]
  /\ \E source \in { "memory", "file" } :
       /\ source = "file" => file.exists
       /\ LET data == IF source = "memory"
                        THEN [ system_info |-> system_info, metrics |-> metrics ]
                        ELSE json_load(file.doc)
          IN ret' = [ op |-> "generate_report", source |-> source,
                      no_samples |-> NoSamples(data.metrics),
                      no_queries |-> (data.metrics.query_times_ms = <<>>),
                      out |-> html_report(data),
                      raised |-> html_report(data).raised ]
  /\ UNCHANGED << clock, disk_counters, start_time, last_disk_io,
                  last_disk_time, system_info, metrics, monitoring,
                  monitor_thread, th, dump, file, hist >>

\* ------------------------------------------------ run_billion_row_challenge
\* (src/billion_row_challenge.py) the benchmark script: the only caller of
\* the monitor while it runs. Each step that calls the monitor is the
\* monitor's own action, taken at the script's position.
\* the measured queries of the script, in the order it runs them
QueryOrder == << "q1", "q2" >>

\* everything but the script's own position and locals
monitor_vars == << clock, disk_counters, start_time, last_disk_io,
                   last_disk_time, system_info, metrics, monitoring,
                   monitor_thread, th, fg, ret, dump, file, hist >>

\* what a monitor call of the shutdown can raise besides its own errors
ShutdownErrors == { "MemoryError" }

\* lines 130-135: the script is entered; the monitor is constructed
run_billion_row_challenge ==
  /\ host.pc = "none"
  /\ host' = [NoHost EXCEPT !.pc = "begin", !.out = "running"]
  /\ UNCHANGED monitor_vars

\* line 136: monitor.start_monitoring(interval=1.0), up to the thread's start
run_start_monitoring ==
  /\ host.pc = "begin"
  /\ start_monitoring
  /\ host' = [host EXCEPT !.pc = "starting"]

\* line 136, the rest of the call: its "Monitoring started" event
run_start_monitoring_event ==
  /\ host.pc = "starting"
  /\ start_monitoring_event
  /\ host' = [host EXCEPT !.pc = "announce"]

\* line 137: monitor.record_event("Starting DuckDB Billion Row Challenge ...")
run_announce ==
  /\ host.pc = "announce"
  /\ call_record_event
  /\ host' = [host EXCEPT !.pc = "connect"]

\* lines 146-157: duckdb.connect and the two SET statements, before the try:
\* an error here leaves the function at once
run_connect ==
  /\ host.pc = "connect"
  /\ \E raises \in BOOLEAN :
       host' = IF ~raises
                 THEN [host EXCEPT !.pc = "profiling", !.conn = "open"]
                 ELSE [host EXCEPT !.pc = "exit", !.conn = "open",
                                   !.failed = TRUE, !.out = "raised"]
  /\ UNCHANGED monitor_vars

\* lines 163-171: the profiling PRAGMAs in their own try/except: an error is
\* swallowed, and either way one event is recorded
run_profiling ==
  /\ host.pc = "profiling"
  /\ call_record_event
  /\ \E raises \in BOOLEAN :
       host' = [host EXCEPT !.pc = "load", !.swallowed = @ \/ raises]

\* lines 175-232: table creation and loading, a round per chunk file: an
\* event is recorded, then the engine is called; an error goes to the handler
\* of line 426
run_load ==
  /\ host.pc = "load"
  /\ call_record_event
  /\ \E raises \in BOOLEAN :
       host' = IF ~raises
                 THEN [host EXCEPT !.k = IF @ + 1 = MaxChunks THEN 0 ELSE @ + 1,
                                   !.pc = IF host.k + 1 = MaxChunks
                                            THEN "query" ELSE "load"]
                 ELSE [host EXCEPT !.pc = "except", !.failed = TRUE]

\* lines 251, 283, 315, 354, 381: monitor.record_query(name, conn, sql), up
\* to the call of the engine
run_record_query ==
  /\ host.pc = "query"
  /\ record_query
  /\ fg'.name = QueryOrder[host.q + 1]
  /\ host' = [host EXCEPT !.pc = "in_query", !.q = @ + 1,
                          !.late = IF host.failed \/ host.swallowed
                                     THEN @ + 1 ELSE @]

\* the measured query returns: on to the next one, or past the last
run_record_query_end ==
  /\ host.pc = "in_query"
  /\ record_query_end
  /\ host' = [host EXCEPT !.pc = IF host.q = Len(QueryOrder)
                                   THEN "plans" ELSE "query"]

\* the measured query raises: record_query lets the error through, and it
\* reaches the handler of line 426
run_record_query_raise ==
  /\ host.pc = "in_query"
  /\ record_query_raise
  /\ host' = [host EXCEPT !.pc = "except", !.failed = TRUE]

\* lines 393-411: the query plan and the profiling output, each in its own
\* try/except: an event, then an engine call whose error is swallowed
run_plans ==
  /\ host.pc = "plans"
  /\ call_record_event
  /\ \E raises \in BOOLEAN :
       host' = [host EXCEPT !.k = IF @ + 1 = 2 THEN 0 ELSE @ + 1,
                            !.pc = IF host.k + 1 = 2 THEN "summary" ELSE "plans",
                            !.swallowed = @ \/ raises]

\* lines 414-424: the summary and its event
run_summary ==
  /\ host.pc = "summary"
  /\ call_record_event
  /\ host' = [host EXCEPT !.pc = "finally"]

\* lines 426-429: except Exception as e: the error is recorded as an event
\* and printed, and goes no further
run_except ==
  /\ host.pc = "except"
  /\ call_record_event
  /\ host' = [host EXCEPT !.pc = "finally"]

\* line 434: monitor.record_event("Generating performance report")
run_final_event ==
  /\ host.pc = "finally"
  /\ call_record_event
  /\ host' = [host EXCEPT !.pc = "stop"]

\* line 435: monitor.stop_monitoring(), the flag
run_stop_monitoring ==
  /\ host.pc = "stop"
  /\ stop_monitoring
  /\ host' = [host EXCEPT !.pc = "join"]

\* line 435, the rest of the call: the join and the event. The script samples
\* every second (line 136) and the join waits two: here the loop has seen the
\* flag and left before the join comes back (a join that times out is what
\* Spec and SpecReport explore)
run_stop_monitoring_join ==
  /\ host.pc = "join"
  /\ ~ThreadAlive
  /\ stop_monitoring_join
  /\ host' = [host EXCEPT !.pc = "save"]

\* line 436: metrics_file = monitor.save_metrics()
run_save_metrics ==
  /\ host.pc = "save"
  /\ save_metrics
  /\ host' = [host EXCEPT !.pc = "dump"]

\* line 436, json.dump at work
run_save_metrics_dump ==
  /\ host.pc = "dump"
  /\ save_metrics_dump
  /\ host' = [host EXCEPT !.pc = IF fg'.pc = "saved" THEN "report" ELSE "dump"]

\* line 437: report_dir = monitor.generate_report(metrics_file); what it
\* raises reaches the handler of line 440
run_generate_report ==
  /\ host.pc = "report"
  /\ generate_report
  /\ ret'.source = "file"
  /\ host' = IF ret'.raised
               THEN [host EXCEPT !.pc = "report_except",
                                 !.shutdown_error = ret'.out.error]
               ELSE [host EXCEPT !.pc = "close"]

\* lines 434-436: one of the calls raises before it has done anything
\* (generate_report raises by itself, above)
run_shutdown_raise ==
  /\ host.pc \in { "finally", "stop", "save" }
  /\ \E error \in ShutdownErrors :
       host' = [host EXCEPT !.pc = "report_except", !.shutdown_error = error]
  /\ UNCHANGED monitor_vars


\* the handler of line 440 ends with a bare raise: the error leaves the
\* function, past print_memory_usage() and conn.close()
run_report_except_reraise ==
  /\ host.pc = "report_except"
  /\ host' = [host EXCEPT !.pc = "exit", !.out = "raised"]
  /\ UNCHANGED monitor_vars

\* lines 440-441: except Exception as e: print
run_report_except ==
  /\ host.pc = "report_except"
  /\ host' = [host EXCEPT !.pc = "close"]
  /\ UNCHANGED monitor_vars

\* lines 443-444: print_memory_usage(); conn.close(); the function returns
run_close ==
  /\ host.pc = "close"
  /\ host' = [host EXCEPT !.pc = "returned", !.conn = "closed",
                          !.out = "returned"]
  /\ UNCHANGED monitor_vars


\* -------------------------------------------------------------------- Next
\* the calls that write the store
StoreCalls ==
  \/ call_record_event /\ UNCHANGED host
  \/ start_monitoring /\ UNCHANGED host
  \/ start_monitoring_event /\ UNCHANGED host
  \/ stop_monitoring /\ UNCHANGED host
  \/ stop_monitoring_join /\ UNCHANGED host
  \/ record_query /\ UNCHANGED host
  \/ record_query_end /\ UNCHANGED host
  \/ record_query_raise /\ UNCHANGED host

\* the calls that read it: the caller ends with save_metrics and
\* generate_report, as both scripts do
ReportCalls ==
  \/ save_metrics /\ UNCHANGED host
  \/ save_metrics_dump /\ UNCHANGED host
  \/ generate_report /\ UNCHANGED host

Next == Sampler \/ StoreCalls

Spec == Init /\ [][Next]_vars

\* the same, with the scheduling the interpreter gives: a thread that can run
\* is run in the end (the interpreter lock is handed over every few
\* milliseconds, and the sleep of the loop ends). Nothing makes the caller
\* go on: the engine may keep a query for as long as it likes.
SpecFair == Spec /\ \A t \in Threads : WF_vars(monitor_thread_run(t))

\* one monitored run and its shutdown, as both scripts do it: the monitor is
\* started once and stopped, and the caller ends with the document and the
\* report
NextReport ==
  \/ Sampler
  \/ (monitor_thread = 0 /\ start_monitoring /\ UNCHANGED host)
  \/ start_monitoring_event /\ UNCHANGED host
  \/ stop_monitoring /\ UNCHANGED host
  \/ stop_monitoring_join /\ UNCHANGED host
  \/ ReportCalls

SpecReport == Init /\ [][NextReport]_vars

\* the benchmark script beside the monitor thread it starts
NextHost ==
  \/ (host.out # "returned" /\ Sampler)
  \/ run_billion_row_challenge
  \/ run_start_monitoring
  \/ run_start_monitoring_event
  \/ run_announce
  \/ run_connect
  \/ run_profiling
  \/ run_load
  \/ run_record_query
  \/ run_record_query_end
  \/ run_record_query_raise
  \/ run_plans
  \/ run_summary
  \/ run_except
  \/ run_final_event
  \/ run_stop_monitoring
  \/ run_stop_monitoring_join
  \/ run_save_metrics
  \/ run_save_metrics_dump
  \/ run_generate_report
  \/ run_shutdown_raise
  \/ run_report_except
  \/ run_close

SpecHost == Init /\ [][NextHost]_vars

\* ================================================================= claims
Last(list) == list[Len(list)]

\* the names of the events, in list order
EventNameSeq(events) == [ i \in DOMAIN events |-> events[i].name ]

\* a list of floats is non-negative and non-decreasing in list order
NonDecreasing(list) ==
  /\ \A i \in DOMAIN list : list[i].val >= 0
  /\ \A i, j \in DOMAIN list : i < j => list[i].val <= list[j].val

\* the captures in flight that have already appended to Series[k]
PastAppend(k) == { t \in Threads : th[t].pc = "append" /\ th[t].k > k }

\* C1: under every interleaving of the foreground with the monitor threads,
\* events holds exactly one entry per record_event call, and each sample
\* series exactly one entry per capture_point call that has got past its
\* append to that series; so once no capture is in flight each series holds
\* one entry per completed capture_point call: nothing is lost or duplicated.
C1_NoAppendLostOrDuplicated ==
  /\ Len(metrics.events) = hist.record_event
  /\ \A k \in DOMAIN Series :
       Len(metrics[Series[k]]) = hist.captured + Cardinality(PastAppend(k))

\* C1 witness: events and completed captures exist while another capture is
\* half-way through its appends
C1_Witness ==
  /\ Len(metrics.events) >= 3
  /\ hist.captured >= 1
  /\ \E t \in Threads : th[t].pc = "append" /\ th[t].k = 4

\* C2 (as claimed): the snapshot save_metrics writes never holds a partially
\* appended sample: its six sample series all have the same length.
C2_SnapshotHoldsWholeSamples ==
  file.exists =>
    \A k \in DOMAIN Series :
      Len(json_load(file.doc).metrics[Series[k]])
        = Len(json_load(file.doc).metrics.timestamp)

\* C3: when the operation inside record_query raises, the call raises the
\* same error, the last event is "Query start: name", no "Query end" event
\* is added, and query_times_ms is what it was before the call.
C3_FailedQueryRecordsOnlyStart ==
  [][ /\ (fg.pc = "idle" /\ fg'.pc = "in_query") =>
           /\ metrics'.events = Append(metrics.events, Last(metrics'.events))
           /\ Last(metrics'.events).name = << "Query start: ", fg'.name >>
           /\ metrics'.query_times_ms = metrics.query_times_ms
      /\ (fg.pc = "in_query" /\ fg'.pc = "idle" /\ ret'.raised) =>
           /\ ret'.op = "record_query"
           /\ ret'.error = hist'.op_out
           /\ metrics'.events = metrics.events
           /\ Last(metrics.events).name = << "Query start: ", fg.name >>
           /\ metrics'.query_times_ms = metrics.query_times_ms
    ]_vars

\* C3 witness: a query has failed after an earlier one succeeded
C3_Witness ==
  /\ fg.pc = "idle"
  /\ ret.op = "record_query" /\ ret.raised
  /\ metrics.query_times_ms # <<>>
  /\ Last(metrics.events).name[1] = "Query start: "

\* C4: when the operation inside record_query succeeds, query_times_ms[name]
\* grows by exactly one entry (the key is created when the name is new, and
\* no other key changes), the entry is >= 0, and the call returns the
\* operation's result with that same entry.
C4_SuccessfulQueryAppendsOneDuration ==
  [][ (fg.pc = "in_query" /\ fg'.pc = "idle" /\ ~ret'.raised) =>
        LET before == metrics.query_times_ms
            after == metrics'.query_times_ms
        IN /\ HasKey(after, fg.name)
           /\ TimesOf(after, fg.name)
                = Append(TimesOf(before, fg.name), Last(TimesOf(after, fg.name)))
           /\ \A n \in QueryNames \ {fg.name} :
                /\ TimesOf(after, n) = TimesOf(before, n)
                /\ HasKey(after, n) = HasKey(before, n)
           /\ Last(TimesOf(after, fg.name)).val >= 0
           /\ ret'.value = << hist'.op_out, Last(TimesOf(after, fg.name)) >>
    ]_vars

\* C4 witness: the same name has been timed twice, the second time for longer
C4_Witness ==
  /\ ret.op = "record_query" /\ ~ret.raised
  /\ \E n \in QueryNames :
       /\ Len(TimesOf(metrics.query_times_ms, n)) = 2
       /\ TimesOf(metrics.query_times_ms, n)[1].val
            < TimesOf(metrics.query_times_ms, n)[2].val

C6_ElapsedNonDecreasing ==
  /\ NonDecreasing(metrics.timestamp)
  /\ NonDecreasing([ i \in DOMAIN metrics.events |-> metrics.events[i].time ])

\* C7: stop_monitoring always returns. While it waits in join the flag is
\* down and its next step can be taken whatever the thread is doing; when it
\* has returned it has not raised, the flag is down and the last event is
\* "Monitoring stopped", whether or not the thread had ended.
C7_StopAlwaysReturns ==
  /\ fg.pc = "join" => (~monitoring /\ ENABLED stop_monitoring_join)
  /\ (fg.pc = "idle" /\ ret.op = "stop_monitoring") =>
       /\ ~ret.raised
       /\ ~monitoring
       /\ Last(metrics.events).name = << "Monitoring stopped" >>

\* C7 witness: stop_monitoring has returned although the thread was in the
\* middle of a capture
C7_Witness ==
  /\ fg.pc = "idle" /\ ret.op = "stop_monitoring" /\ ret.alive
  /\ \E t \in Threads : th[t].pc = "append"

\* C8: after the run start_monitoring; record_event(n1); ...;
\* record_event(nk); stop_monitoring the names of the events are exactly
\* "Monitoring started", n1, ..., nk, "Monitoring stopped", in that order,
\* whatever the monitor thread did in between.
C8_RunEventsInOrder ==
  hist.run = "stopped" =>
    EventNameSeq(metrics.events)
      = << << "Monitoring started" >> >> \o hist.called
          \o << << "Monitoring stopped" >> >>

\* C8 witness: such a run with two events of the caller and with captures
C8_Witness ==
  /\ hist.run = "stopped"
  /\ Len(hist.called) = 2
  /\ hist.captured >= 1

\* C9 (as claimed): on a store with no samples, or with no timed queries,
\* generate_report does not raise; with no samples it reports 0 for the
\* average and peak CPU and memory, with no queries an empty summary list.
C9_ReportToleratesEmpty ==
  (fg.pc = "done" /\ ret.op = "generate_report") =>
    /\ ret.no_samples =>
         /\ ~ret.raised
         /\ ret.out.avg_cpu.val = 0 /\ ret.out.max_cpu.val = 0
         /\ ret.out.avg_memory.val = 0 /\ ret.out.max_memory.val = 0
    /\ ret.no_queries =>
         /\ ~ret.raised
         /\ ret.out.query_summaries = <<>>

\* C10 (as claimed): the document save_metrics wrote, parsed again, is the
\* store as it was at a moment of the serialization: system_info and, entry
\* by entry and in order, the sample series, the events and the durations.
C10_RoundTrip ==
  file.exists =>
    json_load(file.doc) \in
      { [ system_info |-> system_info, metrics |-> m ] : m \in hist.during }

\* C11: a failure of a monitoring shutdown step of run_billion_row_challenge
\* (the final record_event, stop_monitoring, save_metrics or generate_report
\* raising) is caught by the handler of line 440: from there the script can
\* always go on, it never leaves the function as an error, and when it has
\* returned the engine connection is closed.
C11_ShutdownFailureNotFatal ==
  /\ host.shutdown_error # "" =>
        /\ host.pc \in { "report_except", "close", "returned" }
        /\ host.out # "raised"
  /\ host.pc = "report_except" => ENABLED run_report_except
  /\ host.pc = "close" => ENABLED run_close
  /\ host.pc = "returned" => (host.conn = "closed" /\ host.out = "returned")

\* C11 witness: generate_report raised on the document of a run without
\* samples, and the script has returned with the connection closed
C11_Witness ==
  /\ host.pc = "returned"
  /\ host.shutdown_error = "IndexError"
  /\ ret.op = "generate_report" /\ ret.raised
  /\ host.conn = "closed"

\* C12 (as claimed): once an engine call or a measured query of
\* run_billion_row_challenge has raised, no later measured query is run and
\* the function does not return normally.
C12_EngineFailureEndsRunAsError ==
  (host.failed \/ host.swallowed) =>
    /\ host.late = 0
    /\ host.out # "returned"

\* a monitor thread that has been started and has not left its loop
Alive(t) == th[t].pc \notin { "unborn", "exited" }

\* C13: cooperative cancellation. Once the flag is down and is not raised
\* again, every loop that is still alive leaves (the threads being scheduled
\* fairly); and a loop never begins a capture while the flag is down, so
\* the only sample it can still append is the one that was in flight.
C13_CooperativeCancellation ==
  /\ \A t \in Threads :
       (~monitoring /\ Alive(t)) ~> (monitoring \/ th[t].pc = "exited")
  /\ [][ \A t \in Threads :
           (~monitoring /\ th[t].pc = "while") => th'[t].pc # "capture" ]_vars

\* C13 witness: stop_monitoring came back while a capture was in flight (the
\* join timed out); the capture was appended and the loop has left
C13_Witness ==
  /\ ~monitoring
  /\ ret.op = "stop_monitoring" /\ ret.alive
  /\ hist.captured >= 1
  /\ \A t \in Threads : th[t].pc \in { "unborn", "exited" }
  /\ \E t \in Threads : th[t].pc = "exited"

\* C14 (as claimed): at most one sampler loop is alive at any time, when
\* start_monitoring is only called while no start is outstanding (at first,
\* or after a stop_monitoring that has returned).
C14_AtMostOneLoopAlive ==
  Cardinality({ t \in Threads : Alive(t) }) <= 1

\* C15: the timed wrapper and the sampler never block each other. While the
\* caller is inside the query of record_query the query can return, and every
\* monitor thread that is in a capture, or at the top of its loop with
\* samples left to take, can take its next step; so a capture begun while
\* the query runs is appended whether or not the query ever ends (the
\* threads being scheduled fairly).
C15_WrapperAndSamplerNeverBlock ==
  /\ [](fg.pc = "in_query" =>
          /\ ENABLED (record_query_end /\ UNCHANGED host)
          /\ \A t \in Threads :
               ( \/ th[t].pc \in { "capture", "probe", "append" }
                 \/ (th[t].pc = "while" /\ hist.begun < MaxSamples) )
                 => ENABLED monitor_thread_run(t))
  /\ \A t \in Threads :
       (fg.pc = "in_query" /\ th[t].pc = "capture") ~> (th[t].pc = "while")

\* C15 witness: a whole sample has been appended while the caller was inside
\* a query, and another capture is in flight
C15_Witness ==
  /\ fg.pc = "in_query"
  /\ hist.captured >= 1
  /\ Len(metrics.events) = 2
  /\ \E t \in Threads : th[t].pc = "probe"

\* list a is the beginning of list b
IsPrefix(a, b) == Len(a) <= Len(b) /\ SubSeq(b, 1, Len(a)) = a

\* C16: the store is append-only. Across every step of every operation
\* (start_monitoring, stop_monitoring, capture_point, record_event,
\* record_query, save_metrics, generate_report) each sample series, the
\* events and each name's durations begin, after the step, with what they
\* were before it; no duration key goes away; system_info does not change.
C16_StoreAppendOnly ==
  [][ /\ \A k \in DOMAIN Series :
           IsPrefix(metrics[Series[k]], metrics'[Series[k]])
      /\ IsPrefix(metrics.events, metrics'.events)
      /\ \A n \in QueryNames :
           /\ HasKey(metrics.query_times_ms, n) => HasKey(metrics'.query_times_ms, n)
           /\ IsPrefix(TimesOf(metrics.query_times_ms, n),
                       TimesOf(metrics'.query_times_ms, n))
      /\ system_info' = system_info
    ]_vars

\* C16 witness: every operation has run: the store holds samples, events and
\* the durations of two queries, it has been saved and the report made
C16_Witness ==
  /\ host.pc = "returned" /\ host.shutdown_error = ""
  /\ ret.op = "generate_report" /\ ~ret.raised
  /\ Len(metrics.timestamp) = 2
  /\ Len(metrics.query_times_ms) = 2
  /\ ~monitoring

\* C17 (as claimed): every capture_point, the first included, replaces the
\* stored baseline by its own readings, and the read and write rates it
\* reports are (bytes now - bytes of the baseline) / (time now - time of the
\* baseline) in MB/s; the rate is 0 when the byte counters are equal, and
\* nothing is divided when no time has passed.
C17_DiskRateOverConsecutiveCaptures ==
  [][ \A t \in Threads :
        (th[t].pc = "probe" /\ th'[t].pc = "append") =>
          LET dt == th[t].now - last_disk_time
              read == disk_counters'.read_bytes - last_disk_io.read_bytes
              write == disk_counters'.write_bytes - last_disk_io.write_bytes
              read_diff == th'[t].vals[5]
              write_diff == th'[t].vals[6]
          IN /\ last_disk_io' = disk_counters'
             /\ last_disk_time' = th[t].now
             /\ dt # 0 => /\ read_diff.val = Rate(read, dt)
                          /\ write_diff.val = Rate(write, dt)
             /\ read = 0 => read_diff.val = 0
             /\ write = 0 => write_diff.val = 0
             /\ dt = 0 => (read_diff = PyInt(0) /\ write_diff = PyInt(0))
    ]_vars

\* how many events are named << kind, n, ... >> among the first i
CountEvents(events, kind, n, i) ==
  Cardinality({ j \in 1..i : events[j].name[1] = kind /\ events[j].name[2] = n })

\* how many of the failed calls were for the name n
CountFailed(n) == Cardinality({ j \in DOMAIN hist.failed : hist.failed[j] = n })

\* C18: query bracketing. For every name n, the number of "Query end: n"
\* events is at most the number of durations of n, which is at most the
\* number of "Query start: n" events; starts and ends differ by at most the
\* call in progress plus the failed calls; and each "Query end: n" event
\* comes after a "Query start: n" event that no earlier end has matched.
C18_QueryBracketing ==
  \A n \in QueryNames :
    LET events == metrics.events
        starts == CountEvents(events, "Query start: ", n, Len(events))
        ends == CountEvents(events, "Query end: ", n, Len(events))
        running == IF fg.pc = "in_query" /\ fg.name = n THEN 1 ELSE 0
    IN /\ ends <= Len(TimesOf(metrics.query_times_ms, n))
       /\ Len(TimesOf(metrics.query_times_ms, n)) <= starts
       /\ starts - ends <= running + CountFailed(n)
       /\ \A i \in DOMAIN events :
            (events[i].name[1] = "Query end: " /\ events[i].name[2] = n) =>
              CountEvents(events, "Query start: ", n, i - 1)
                > CountEvents(events, "Query end: ", n, i - 1)

\* C18 witness: one name has a failed call and, after it, a finished one
C18_Witness ==
  \E n \in QueryNames :
    /\ CountFailed(n) = 1
    /\ CountEvents(metrics.events, "Query start: ", n, Len(metrics.events)) = 2
    /\ CountEvents(metrics.events, "Query end: ", n, Len(metrics.events)) = 1
    /\ Len(TimesOf(metrics.query_times_ms, n)) = 1

====
